---- MODULE Spec2Model ----
(***************************************************************************)
(* A model of the DASNY procurement scraper: utils.py (page fetching, link  *)
(* harvesting, record extraction, aggregation, configuration I/O) and the   *)
(* two command-line runs scrap_urls.main (discovery) and                    *)
(* scrap_contents.main (extraction).                                        *)
(*                                                                          *)
(* Python text is a sequence of one-character strings.  An optional value   *)
(* (Python None or a value) is the empty sequence or a one-element          *)
(* sequence.                                                                *)
(***************************************************************************)
EXTENDS Naturals, Sequences, FiniteSets, TLC

VARIABLES
    rawTitle,   \* text of a hyperlink being normalized (utils.py:64)
    slug,       \* Option: the normalized title
    soup,       \* the parsed opportunity page handed to extract_data
    record,     \* Option: the record extract_data returned
    run,        \* which command-line run is executing
    pc,         \* position of the run
    cfgFile,    \* the configuration file on disk (extraction run input)
    output,     \* Option: the `output` argument of scrap_contents.main
    urls,       \* Option: what load_yaml_to_dict returned
    data,       \* scrap_contents.main: the accumulating list of records
    netLog,     \* every HTTP GET issued so far, with its response
    url_dict,   \* scrap_urls.main: the accumulating title -> url mapping
    listing,    \* the listing pages folded into url_dict so far
    files,      \* every file written so far (output, YAML or temporary)
    raised,     \* the exception that left main, "none" while there is none
    df,         \* Option: the rows returned by extract_multiple_to_df
    pages       \* the `pages` argument of scrap_urls.main

normVars == <<rawTitle, slug>>
pageVars == <<soup, record>>
runVars  == <<run, pc, cfgFile, output, urls, data, netLog, url_dict, listing,
              files, raised, df, pages>>
vars     == <<rawTitle, slug, soup, record, run, pc, cfgFile, output, urls,
              data, netLog, url_dict, listing, files, raised, df, pages>>

----------------------------------------------------------------------------
(* Python values *)

None == <<>>
Some(v) == <<v>>
IsNone(o) == Len(o) = 0
Val(o) == o[1]

\* The en dash U+2013, one character.
EnDash == "u2013"

Digits == {"0", "1", "2", "3", "4", "5", "6", "7", "8", "9"}
Uppers == <<"A", "B", "C", "D", "E", "F", "G", "H", "I", "J", "K", "L", "M",
            "N", "O", "P", "Q", "R", "S", "T", "U", "V", "W", "X", "Y", "Z">>
Lowers == <<"a", "b", "c", "d", "e", "f", "g", "h", "i", "j", "k", "l", "m",
            "n", "o", "p", "q", "r", "s", "t", "u", "v", "w", "x", "y", "z">>
Letters == {Uppers[i] : i \in DOMAIN Uppers} \cup {Lowers[i] : i \in DOMAIN Lowers}

IsSpace(c) == c \in {" ", "\t", "\n"}
IsDigit(c) == c \in Digits
\* The regular expression class \w.
IsWordChar(c) == c \in Digits \cup Letters \cup {"_"}

\* str.lower() on one character.
LowerChar(c) ==
    IF \E i \in DOMAIN Uppers : Uppers[i] = c
    THEN Lowers[CHOOSE i \in DOMAIN Uppers : Uppers[i] = c]
    ELSE c

\* str.lower()
PyLower(s) == [i \in DOMAIN s |-> LowerChar(s[i])]

\* s[from..] as a sequence (1-based; empty when from > Len(s)).
Drop(s, n) == SubSeq(s, n + 1, Len(s))

StartsWith(s, p) == Len(p) <= Len(s) /\ SubSeq(s, 1, Len(p)) = p

\* str.endswith(p)
EndsWith(s, p) == Len(p) <= Len(s) /\ SubSeq(s, Len(s) - Len(p) + 1, Len(s)) = p

\* `p in s` for strings.
Contains(s, p) == \E i \in 0..Len(s) : StartsWith(Drop(s, i), p)

RECURSIVE LStrip(_)
LStrip(s) == IF s # <<>> /\ IsSpace(Head(s)) THEN LStrip(Tail(s)) ELSE s

RECURSIVE RStrip(_)
RStrip(s) ==
    IF s # <<>> /\ IsSpace(s[Len(s)]) THEN RStrip(SubSeq(s, 1, Len(s) - 1)) ELSE s

\* str.strip(), and get_text(strip=True) on an element holding one text node.
Strip(s) == RStrip(LStrip(s))

\* str.replace(old, new) for a non-empty `old`: leftmost, non-overlapping.
RECURSIVE Replace(_, _, _)
Replace(s, old, new) ==
    IF Len(s) < Len(old) THEN s
    ELSE IF StartsWith(s, old) THEN new \o Replace(Drop(s, Len(old)), old, new)
    ELSE <<Head(s)>> \o Replace(Tail(s), old, new)

\* str.split(sep) for a one-character separator: n separators give n+1 parts.
RECURSIVE SplitAcc(_, _, _)
SplitAcc(s, sep, cur) ==
    IF s = <<>> THEN <<cur>>
    ELSE IF Head(s) = sep THEN <<cur>> \o SplitAcc(Tail(s), sep, <<>>)
    ELSE SplitAcc(Tail(s), sep, Append(cur, Head(s)))

Split(s, sep) == SplitAcc(s, sep, <<>>)

----------------------------------------------------------------------------
(* utils.py:64, the title normalization of extract_title_url *)

\* Variant: the en-dash replacement made before the spaces become underscores.
normalize_reordered(t) ==
    Replace(Replace(Replace(t, <<"'">>, <<>>), <<"_", EnDash, "_">>, <<"-">>),
            <<" ">>, <<"_">>)

normalize(t) ==
    Replace(Replace(Replace(t, <<"'">>, <<>>), <<" ">>, <<"_">>),
            <<"_", EnDash, "_">>, <<"-">>)

----------------------------------------------------------------------------
(* utils.py:72-116, extract_data.  A parsed opportunity page is what the     *)
(* four queries of extract_data find in it:                                 *)
(*   header : Option(text)   soup.find("h1", class_="page-header")          *)
(*   notice : Option(text)   soup.find("div", id="rfp-ad-notice")           *)
(*   bid    : Option(table)  soup.find("table", id="bidresultlist")         *)
(*   award  : Option(table)  soup.find("table", id="awardlist")             *)
(* A table is the sequence of its tr rows, a row the sequence of the texts  *)
(* of its td cells.                                                         *)

TitleNotFound == <<"T", "i", "t", "l", "e", " ", "n", "o", "t", " ",
                   "f", "o", "u", "n", "d">>

Estimated == <<"e", "s", "t", "i", "m", "a", "t", "e", "d">>

\* Whether position i of s holds a \w character (FALSE outside s).
WordAt(s, i) == i \in 1..Len(s) /\ IsWordChar(s[i])

\* \b between positions i-1 and i of s.
Boundary(s, i) == WordAt(s, i - 1) # WordAt(s, i)

\* The class [\d,].
IsNumChar(c) == IsDigit(c) \/ c = ","

\* [\d,]* is greedy: the last position of the run of [\d,] that holds j.
RECURSIVE GreedyEnd(_, _)
GreedyEnd(s, j) ==
    IF j + 1 <= Len(s) /\ IsNumChar(s[j + 1]) THEN GreedyEnd(s, j + 1) ELSE j

\* The trailing \b: give characters back until a boundary follows; 0: no match.
RECURSIVE Backtrack(_, _, _)
Backtrack(s, i, j) ==
    IF j < i THEN 0
    ELSE IF Boundary(s, j + 1) THEN j
    ELSE Backtrack(s, i, j - 1)

\* Variant: the pattern without its two \b, \d[\d,]*.
MatchEnd_noboundary(s, i) ==
    IF IsDigit(s[i]) THEN GreedyEnd(s, i) ELSE 0

\* The end of the match of \b\d[\d,]*\b that starts at i; 0: none starts there.
MatchEnd(s, i) ==
    IF Boundary(s, i) /\ IsDigit(s[i]) THEN Backtrack(s, i, GreedyEnd(s, i)) ELSE 0

\* re.findall(r"\b\d[\d,]*\b", s): leftmost matches, scanning on after each.
RECURSIVE FindAllFrom(_, _)
FindAllFrom(s, i) ==
    IF i > Len(s) THEN <<>>
    ELSE LET e == MatchEnd(s, i)
         IN  IF e = 0 THEN FindAllFrom(s, i + 1)
             ELSE <<SubSeq(s, i, e)>> \o FindAllFrom(s, e + 1)

re_findall(s) == FindAllFrom(s, 1)

\* utils.py:82-85, the loop over the sentences; a pair is a Python tuple.
RECURSIVE EstimateLoop(_)
EstimateLoop(sentences) ==
    IF sentences = <<>> THEN <<>>
    ELSE LET sentence == Head(sentences)
         IN  (IF Contains(PyLower(sentence), Estimated)
              THEN << <<Strip(sentence), re_findall(sentence)>> >>
              ELSE <<>>)
             \o EstimateLoop(Tail(sentences))

\* utils.py:78-85
estimated_numbers_of(page) ==
    IF IsNone(page.notice) THEN <<>>
    ELSE EstimateLoop(Split(Strip(Val(page.notice)), "."))

\* utils.py:92-97, the loop over the rows of the bid-results table.
RECURSIVE BidLoop(_)
BidLoop(rows) ==
    IF rows = <<>> THEN <<>>
    ELSE LET cols == Head(rows)
         IN  (IF Len(cols) >= 3
              THEN <<[company |-> Strip(cols[2]), bid_amount |-> Strip(cols[3])]>>
              ELSE <<>>)
             \o BidLoop(Tail(rows))

\* utils.py:104-109, the loop over the rows of the awards table.
RECURSIVE AwardLoop(_)
AwardLoop(rows) ==
    IF rows = <<>> THEN <<>>
    ELSE LET cols == Head(rows)
         IN  (IF Len(cols) >= 3
              THEN <<[firm_name |-> Strip(cols[2]), award_amt |-> Strip(cols[3])]>>
              ELSE <<>>)
             \o AwardLoop(Tail(rows))

\* find_all("tr")[1:]
SkipHeader(rows) == Drop(rows, 1)

\* Variant: no default title.
title_of_nodefault(page) ==
    IF IsNone(page.header) THEN <<>> ELSE Strip(Val(page.header))

\* utils.py:74-75
title_of(page) ==
    IF IsNone(page.header) THEN TitleNotFound ELSE Strip(Val(page.header))

\* Variant: the first row is not skipped.
bid_results_of_withheader(page) ==
    IF IsNone(page.bid) THEN <<>> ELSE BidLoop(Val(page.bid))

\* utils.py:88-97
bid_results_of(page) ==
    IF IsNone(page.bid) THEN <<>> ELSE BidLoop(SkipHeader(Val(page.bid)))

\* utils.py:100-109
awards_of(page) ==
    IF IsNone(page.award) THEN <<>> ELSE AwardLoop(SkipHeader(Val(page.award)))

extract_data(page) ==
    [title             |-> title_of(page),
     estimated_numbers |-> estimated_numbers_of(page),
     bid_results       |-> bid_results_of(page),
     awards            |-> awards_of(page)]

----------------------------------------------------------------------------
(* utils.py:47-53, get_full_html.  A GET ends in a transport failure or in a *)
(* response with a status and a parsed body.                                *)

TransportFailure(body) == [kind |-> "failure", status |-> 0, body |-> body]
Response(status, body) == [kind |-> "response", status |-> status, body |-> body]

\* Variant: no raise_for_status, and a failed GET answers its body.
get_full_html_noraise(resp) == [raised |-> "none", soup |-> Some(resp.body)]

\* requests.get raises on a transport failure, raise_for_status on 4xx and 5xx.
get_full_html(resp) ==
    IF resp.kind = "failure" THEN [raised |-> "ConnectionError", soup |-> None]
    ELSE IF 400 <= resp.status /\ resp.status < 600
         THEN [raised |-> "HTTPError", soup |-> None]
    ELSE [raised |-> "none", soup |-> Some(resp.body)]

----------------------------------------------------------------------------
(* utils.py:56-69, extract_title_url.  A parsed listing page is the sequence *)
(* of its div.rfp-bid-title blocks; a block is the first hyperlink inside   *)
(* it, if any: [a : Option([text, href : Option(text)])].  A Python dict is  *)
(* the sequence of its <<key, value>> items in insertion order.             *)

DictKeys(d) == {d[i][1] : i \in DOMAIN d}
DictGet(d, k) == d[CHOOSE i \in DOMAIN d : d[i][1] = k][2]
DictValues(d) == [i \in DOMAIN d |-> d[i][2]]

\* Variant: an existing key keeps its value.
DictSet_keepfirst(d, k, v) ==
    IF k \in DictKeys(d) THEN d ELSE Append(d, <<k, v>>)

\* d[k] = v
DictSet(d, k, v) ==
    IF k \in DictKeys(d)
    THEN [i \in DOMAIN d |-> IF d[i][1] = k THEN <<k, v>> ELSE d[i]]
    ELSE Append(d, <<k, v>>)

\* dict.update(other)
RECURSIVE DictUpdate(_, _)
DictUpdate(d, other) ==
    IF other = <<>> THEN d
    ELSE DictUpdate(DictSet(d, Head(other)[1], Head(other)[2]), Tail(other))

\* utils.py:61-67, the loop over the title blocks.
RECURSIVE TitleLoop(_, _)
TitleLoop(title_divs, title_url_mapping) ==
    IF title_divs = <<>> THEN title_url_mapping
    ELSE LET a_tag == Head(title_divs).a
             title == normalize(Strip(Val(a_tag).text))
             url == Val(a_tag).href
         IN  IF ~IsNone(a_tag) /\ title # <<>> /\ ~IsNone(url) /\ Val(url) # <<>>
             THEN TitleLoop(Tail(title_divs), DictSet(title_url_mapping, title, Val(url)))
             ELSE TitleLoop(Tail(title_divs), title_url_mapping)

extract_title_url(page) == TitleLoop(page, <<>>)

----------------------------------------------------------------------------
(* utils.py:17-44 temp_pickle, utils.py:119-140 extract_multiple_to_df *)

\* str(value): the text form of a value, which is not the value.
PyStr(v) == [str_of |-> v]

\* utils.py:132-136, one row of the result.
RowOf(rec, iscsv) ==
    IF iscsv THEN [key \in DOMAIN rec |-> PyStr(rec[key])] ELSE rec

\* The undecorated function.
extract_multiple_to_df(data_list, iscsv) ==
    [i \in DOMAIN data_list |-> RowOf(data_list[i], iscsv)]

\* hash() accepts a value of this type; a tuple is hashed through its elements.
PyHashable(type) == type \notin {"list", "dict", "set"}
TupleHashable(types) == \A i \in DOMAIN types : PyHashable(types[i])

TempPicklePath == <<"t", "m", "p", "/", "p", "k", "l">>

\* The decorated call extract_multiple_to_df(data, iscsv) of scrap_contents.py:30:
\* args is the tuple (data, iscsv), a list and a bool.  The wrapper hashes args
\* to name the cache file before anything else; with no cache file it runs the
\* function, writes the pickle, removes it and returns the result.
temp_pickle(data_list, iscsv) ==
    IF ~TupleHashable(<<"list", "bool">>)
    THEN [raised |-> "TypeError", result |-> None, writes |-> <<>>]
    ELSE [raised |-> "none",
          result |-> Some(extract_multiple_to_df(data_list, iscsv)),
          writes |-> <<[writer |-> "pickle", path |-> TempPicklePath]>>]

----------------------------------------------------------------------------
(* utils.py:143-183, the configuration file *)

\* load_yaml_to_dict: a missing or malformed file raises inside the try and
\* gives None; an empty document loads as None; a mapping loads as a dict.
load_yaml_to_dict(file) ==
    IF file.kind = "mapping" THEN Some(file.dict) ELSE None

YamlDir == <<"u", "r", "l", "s", "/">>
DotYaml == <<".", "y", "a", "m", "l">>
DotCsv == <<".", "c", "s", "v">>
DotJson == <<".", "j", "s", "o", "n">>
CsvDir == <<"o", "u", "t", "p", "u", "t", "/", "c", "s", "v", "/">>

\* scrap_urls.py:14, the default `target`.
Target == <<"b", "i", "d", "s">>

\* The `yaml` argument of scrap_contents.main.
YamlPath == YamlDir \o Target \o DotYaml

\* The configuration file on disk: missing, malformed, empty, or a mapping.
ConfigFile(kind, dict) == [kind |-> kind, path |-> YamlPath, dict |-> dict]

\* scrap_contents.py:33: output/csv/<yaml.split('/')[-1].split('.')[0]>.csv
DerivedCsvPath(yaml) ==
    LET parts == Split(yaml, "/")
    IN  CsvDir \o Head(Split(parts[Len(parts)], ".")) \o DotCsv

\* scrap_contents.py:27; `not output` holds for None and for the empty string.
NoOutput(out) == IsNone(out) \/ Val(out) = <<>>
IsCsv(out) == NoOutput(out) \/ EndsWith(Val(out), DotCsv)

----------------------------------------------------------------------------
(* Inputs of the pure functions *)

\* Bounds of the enumerated inputs.
MaxTitleLen == 5
MaxPieces == 5
MaxRows == 3
MaxUrls == 3
MaxPages == 3

\* Sequences over S of length at most n.
SeqsUpTo(S, n) == UNION {[1..k -> S] : k \in 0..n}

RECURSIVE Concat(_)
Concat(ss) == IF ss = <<>> THEN <<>> ELSE Head(ss) \o Concat(Tail(ss))

TitleChars == {"'", " ", "_", EnDash, "-", "a"}
TitleStrings == SeqsUpTo(TitleChars, MaxTitleLen)

\* A notice text is a concatenation of these pieces.
NoticePieces ==
    {Estimated,
     <<"E", "s", "t", "i", "M", "A", "T", "E", "D">>,
     <<"7">>, <<",">>, <<" ">>, <<".">>}
NoticeTexts == {Concat(ps) : ps \in SeqsUpTo(NoticePieces, MaxPieces)}

CellA == <<"A">>
CellB == <<" ", "B", " ">>
CellC == <<"7", ",", "5">>
\* Rows of 0 (a header row of th cells), 1, 2, 3 and 4 td cells.
TableRows ==
    {<<>>, <<CellA>>, <<CellA, CellB>>, <<CellA, CellB, CellC>>,
     <<CellB, CellC, CellA>>, <<CellC, CellA, CellB, CellB>>}
Tables == SeqsUpTo(TableRows, MaxRows)

EmptyPage == [header |-> None, notice |-> None, bid |-> None, award |-> None]

\* Pages with each of the four elements present or absent.
SamplePages ==
    [header : {None, Some(<<>>), Some(<<" ", "R", "F", "P", "\n">>)},
     notice : {None, Some(<<>>), Some(Estimated \o <<" ", "7">>)},
     bid    : {None, Some(<<>>), Some(<<<<>>, <<CellA, CellB, CellC>>>>)},
     award  : {None, Some(<<>>), Some(<<<<>>, <<CellC, CellA, CellB>>>>)}]
NoticePages == {[EmptyPage EXCEPT !.notice = Some(t)] : t \in NoticeTexts}
BidPages == {[EmptyPage EXCEPT !.bid = Some(t)] : t \in Tables}
AwardPages == {[EmptyPage EXCEPT !.award = Some(t)] : t \in Tables}
OpportunityPages == SamplePages \cup NoticePages \cup BidPages \cup AwardPages

----------------------------------------------------------------------------
(* Specifications of the pure functions *)

NormIdle == rawTitle = <<>> /\ slug = None
PageIdle == soup = EmptyPage /\ record = None
RunIdle ==
    /\ run = "none" /\ pc = "idle" /\ cfgFile = ConfigFile("missing", <<>>)
    /\ output = None /\ urls = None /\ data = <<>> /\ netLog = <<>>
    /\ url_dict = <<>> /\ listing = <<>> /\ files = <<>> /\ raised = "none"
    /\ df = None /\ pages = 0

\* extract_title_url normalizes the text of one hyperlink.
InitNorm == rawTitle \in TitleStrings /\ slug = None /\ PageIdle /\ RunIdle

NormalizeTitle ==
    /\ IsNone(slug)
    /\ slug' = Some(normalize(rawTitle))
    /\ UNCHANGED <<rawTitle, pageVars, runVars>>

SpecNorm == InitNorm /\ [][NormalizeTitle]_vars

\* extract_data is applied to one parsed page.
InitPage == soup \in OpportunityPages /\ record = None /\ NormIdle /\ RunIdle

ExtractData ==
    /\ IsNone(record)
    /\ record' = Some(extract_data(soup))
    /\ UNCHANGED <<soup, normVars, runVars>>

SpecPage == InitPage /\ [][ExtractData]_vars

----------------------------------------------------------------------------
(* The two runs: scrap_contents.main (extraction), scrap_urls.main (discovery) *)

DigitChars == <<"0", "1", "2", "3", "4", "5", "6", "7", "8", "9">>

ConfigEntry(i) == << <<"t", DigitChars[i + 1]>>, <<"/", "n", DigitChars[i + 1]>> >>
ConfigFiles ==
    {ConfigFile(k, <<>>) : k \in {"missing", "malformed", "empty"}}
    \cup {ConfigFile("mapping", [i \in 1..n |-> ConfigEntry(i)]) : n \in 0..MaxUrls}

Outputs ==
    {None, Some(<<>>),
     Some(<<"o">> \o DotJson), Some(<<"o">> \o DotCsv),
     Some(<<"o", ".", "t", "x", "t">>), Some(<<"o", "j", "s", "o", "n">>)}

\* What a GET of an opportunity page can answer.
FullPage ==
    [header |-> Some(<<"R", "F", "P">>),
     notice |-> Some(Estimated \o <<" ", "7">>),
     bid    |-> Some(<<<<>>, <<CellA, CellB, CellC>>>>),
     award  |-> None]
ExtResponses ==
    {Response(200, FullPage), Response(200, EmptyPage), Response(404, EmptyPage),
     Response(503, EmptyPage), TransportFailure(EmptyPage)}

\* What a GET of a listing page can answer.
Link(text, href) == [a |-> Some([text |-> text, href |-> href])]
NoLink == [a |-> None]
HrefX == Some(<<"/", "x">>)
HrefY == Some(<<"/", "y">>)
HrefZ == Some(<<"/", "z">>)
ListingPages ==
    {<<>>,
     <<NoLink, Link(<<"a", " ", "b">>, HrefX), Link(<<"c">>, None)>>,
     <<Link(<<"a", "_", "b">>, HrefY), Link(<<" ">>, HrefX)>>,
     <<Link(<<"c">>, HrefX), Link(<<"a">>, Some(<<>>)), Link(<<" ", "c", " ">>, HrefZ)>>,
     <<Link(<<"'">>, HrefZ), Link(<<"a", " ", EnDash, " ", "b">>, HrefY)>>}
DiscResponses ==
    {Response(200, p) : p \in ListingPages}
    \cup {Response(404, <<>>), TransportFailure(<<>>)}

InitExtraction ==
    /\ run = "extraction" /\ pc = "load"
    /\ cfgFile \in ConfigFiles /\ output \in Outputs
    /\ pages = 0

InitDiscovery ==
    /\ run = "discovery" /\ pc = "start"
    /\ cfgFile = ConfigFile("missing", <<>>) /\ output = None
    /\ pages \in 0..MaxPages

Init ==
    /\ NormIdle /\ PageIdle
    /\ InitExtraction \/ InitDiscovery
    /\ urls = None /\ data = <<>> /\ netLog = <<>> /\ url_dict = <<>>
    /\ listing = <<>> /\ files = <<>> /\ raised = "none" /\ df = None

LogEntry(url, resp) == [url |-> url, kind |-> resp.kind, status |-> resp.status]

\* scrap_contents.py:16-19
ExtLoad ==
    /\ run = "extraction" /\ pc = "load"
    /\ urls' = load_yaml_to_dict(cfgFile)
    /\ data' = <<>>
    /\ pc' = "iterate"
    /\ UNCHANGED <<normVars, pageVars, run, cfgFile, output, netLog, url_dict,
                   listing, files, raised, df, pages>>

\* scrap_contents.py:21, urls.values(): None has no attribute `values`.
ExtIterate ==
    /\ run = "extraction" /\ pc = "iterate"
    /\ IF IsNone(urls)
       THEN raised' = "AttributeError" /\ pc' = "raised"
       ELSE raised' = raised /\ pc' = "fetch"
    /\ UNCHANGED <<normVars, pageVars, run, cfgFile, output, urls, data, netLog,
                   url_dict, listing, files, df, pages>>

\* scrap_contents.py:21-25, one iteration of the loop.
ExtFetch ==
    /\ run = "extraction" /\ pc = "fetch"
    /\ Len(netLog) < Len(Val(urls))
    /\ \E resp \in ExtResponses :
         LET url == DictValues(Val(urls))[Len(netLog) + 1]
             got == get_full_html(resp)
         IN  /\ netLog' = Append(netLog, LogEntry(url, resp))
             /\ IF got.raised # "none"
                THEN raised' = got.raised /\ pc' = "raised" /\ data' = data
                ELSE /\ data' = Append(data, extract_data(Val(got.soup)))
                     /\ raised' = raised /\ pc' = pc
    /\ UNCHANGED <<normVars, pageVars, run, cfgFile, output, urls, url_dict,
                   listing, files, df, pages>>

\* scrap_contents.py:27-45, after the loop.
ExtFinish ==
    /\ run = "extraction" /\ pc = "fetch"
    /\ Len(netLog) = Len(Val(urls))
    /\ LET iscsv == IsCsv(output)
           agg == temp_pickle(data, iscsv)
           written(writer, path) ==
               files \o agg.writes \o <<[writer |-> writer, path |-> path]>>
       IN  IF agg.raised # "none"
           THEN /\ raised' = agg.raised /\ pc' = "raised"
                /\ files' = files \o agg.writes /\ df' = df
           ELSE /\ df' = agg.result
                /\ IF NoOutput(output)
                   THEN /\ files' = written("csv", DerivedCsvPath(cfgFile.path))
                        /\ raised' = raised /\ pc' = "done"
                   ELSE IF EndsWith(Val(output), DotJson)
                   THEN /\ files' = written("json", Val(output))
                        /\ raised' = raised /\ pc' = "done"
                   ELSE IF EndsWith(Val(output), DotCsv)
                   THEN /\ files' = written("csv", Val(output))
                        /\ raised' = raised /\ pc' = "done"
                   ELSE /\ files' = files \o agg.writes
                        /\ raised' = "ValueError" /\ pc' = "raised"
    /\ UNCHANGED <<normVars, pageVars, run, cfgFile, output, urls, data, netLog,
                   url_dict, listing, pages>>

\* scrap_urls.py:15-17, the page URLs for range(pages).
DiscStart ==
    /\ run = "discovery" /\ pc = "start"
    /\ urls' = Some([i \in 1..pages |-> i - 1])
    /\ url_dict' = <<>>
    /\ pc' = "fetch"
    /\ UNCHANGED <<normVars, pageVars, run, cfgFile, output, data, netLog,
                   listing, files, raised, df, pages>>

\* scrap_urls.py:18-19, one iteration of the loop.
DiscFetch ==
    /\ run = "discovery" /\ pc = "fetch"
    /\ Len(netLog) < Len(Val(urls))
    /\ \E resp \in DiscResponses :
         LET url == Val(urls)[Len(netLog) + 1]
             got == get_full_html(resp)
         IN  /\ netLog' = Append(netLog, LogEntry(url, resp))
             /\ IF got.raised # "none"
                THEN /\ raised' = got.raised /\ pc' = "raised"
                     /\ UNCHANGED <<url_dict, listing>>
                ELSE /\ url_dict' = DictUpdate(url_dict, extract_title_url(Val(got.soup)))
                     /\ listing' = Append(listing, Val(got.soup))
                     /\ raised' = raised /\ pc' = pc
    /\ UNCHANGED <<normVars, pageVars, run, cfgFile, output, urls, data, files,
                   df, pages>>

\* scrap_urls.py:20 and utils.py:143-164, save_dict_to_yaml: a failing write is
\* caught and printed.
DiscSave ==
    /\ run = "discovery" /\ pc = "fetch"
    /\ Len(netLog) = Len(Val(urls))
    /\ \E ok \in BOOLEAN :
         files' = IF ok
                  THEN Append(files, [writer |-> "yaml", path |-> YamlDir \o Target \o DotYaml])
                  ELSE files
    /\ pc' = "done"
    /\ UNCHANGED <<normVars, pageVars, run, cfgFile, output, urls, data, netLog,
                   url_dict, listing, raised, df, pages>>

Next ==
    \/ ExtLoad \/ ExtIterate \/ ExtFetch \/ ExtFinish
    \/ DiscStart \/ DiscFetch \/ DiscSave

Spec == Init /\ [][Next]_vars

----------------------------------------------------------------------------
(* Helpers of the properties *)

Min(S) == CHOOSE x \in S : \A y \in S : x <= y
Max(S) == CHOOSE x \in S : \A y \in S : y <= x

\* The position of x in the increasing order of the set S of numbers.
Rank(S, x) == Cardinality({y \in S : y <= x})

\* S in increasing order.
Ascending(S) == [r \in 1..Cardinality(S) |-> CHOOSE x \in S : Rank(S, x) = r]

\* t without its leading and trailing white space, by positions.
Trimmed(t) ==
    LET ink == {i \in 1..Len(t) : ~IsSpace(t[i])}
    IN  IF ink = {} THEN <<>> ELSE SubSeq(t, Min(ink), Max(ink))

\* The k-th period-delimited sentence of t, k in 1..(number of periods + 1).
PeriodsOf(t) == {i \in 1..Len(t) : t[i] = "."}
NthPeriod(t, k) ==
    IF k = 0 THEN 0
    ELSE IF k > Cardinality(PeriodsOf(t)) THEN Len(t) + 1
    ELSE CHOOSE p \in PeriodsOf(t) : Rank(PeriodsOf(t), p) = k
SentenceAt(t, k) == SubSeq(t, NthPeriod(t, k - 1) + 1, NthPeriod(t, k) - 1)

\* The sentence holds "estimated" in some mix of cases.
Mentions(s) ==
    \E i \in 1..Len(s) :
        /\ i + Len(Estimated) - 1 <= Len(s)
        /\ \A j \in 1..Len(Estimated) : LowerChar(s[i + j - 1]) = Estimated[j]

MentioningSentences(t) ==
    {k \in 1..(Cardinality(PeriodsOf(t)) + 1) : Mentions(SentenceAt(t, k))}

IsRun(s, i, j) == i <= j /\ \A k \in i..j : IsNumChar(s[k])

\* The maximal runs of \d[\d,]*: in each maximal block of digits and commas,
\* from its first digit to its end.
MaximalRuns(s) ==
    LET starts == {i \in 1..Len(s) :
                      /\ IsDigit(s[i])
                      /\ ~\E h \in 1..(i - 1) : IsDigit(s[h]) /\ IsRun(s, h, i)}
        endOf(i) == Max({j \in i..Len(s) : IsRun(s, i, j)})
        order == Ascending(starts)
    IN  [r \in DOMAIN order |-> SubSeq(s, order[r], endOf(order[r]))]

\* s[i..j] is a run that begins with a digit, with no word character before it,
\* and ends where a word character meets a non-word character or the end.
WordBounded(s, i, j) ==
    /\ IsRun(s, i, j) /\ IsDigit(s[i])
    /\ (i = 1 \/ ~IsWordChar(s[i - 1]))
    /\ IF IsDigit(s[j]) THEN j = Len(s) \/ ~IsWordChar(s[j + 1])
                        ELSE j < Len(s) /\ IsWordChar(s[j + 1])

\* The leftmost-longest non-overlapping word-bounded runs, in order.
WordBoundedRuns(s) ==
    LET ends(i) == {j \in i..Len(s) : WordBounded(s, i, j)}
        cands == {i \in 1..Len(s) : ends(i) # {}}
        last(i) == Max(ends(i))
        chosen == CHOOSE C \in SUBSET cands :
                      \A i \in cands :
                          i \in C <=> ~\E h \in C : h < i /\ i <= last(h)
        order == Ascending(chosen)
    IN  [r \in DOMAIN order |-> SubSeq(s, order[r], last(order[r]))]

\* The rows of a table that yield an entry: after the first, with >= 3 cells.
DataRows(t) == {i \in 2..Len(t) : Len(t[i]) >= 3}

----------------------------------------------------------------------------
(* Properties of the pure functions *)

\* C8: title normalization is idempotent: normalizing a normalized title gives
\* it back, for every title over apostrophe, space, underscore, en dash, hyphen
\* and a letter.
C8_NormalizeIdempotent ==
    ~IsNone(slug) => normalize(Val(slug)) = Val(slug)

\* A title with a space-separated en dash was normalized into a different slug.
C8_Witness ==
    /\ ~IsNone(slug)
    /\ Contains(rawTitle, <<" ", EnDash, " ">>)
    /\ Contains(rawTitle, <<"'">>)
    /\ Val(slug) # rawTitle
    /\ Contains(Val(slug), <<"-">>)

\* C4: extract_data returns, for every combination of present and absent
\* elements, a record of exactly the four fields; an absent heading gives the
\* title "Title not found" and an absent section or table an empty sequence.
C4_ExtractTotal ==
    ~IsNone(record) =>
        /\ DOMAIN Val(record) = {"title", "estimated_numbers", "bid_results", "awards"}
        /\ IsNone(soup.header) => Val(record).title = TitleNotFound
        /\ IsNone(soup.notice) => Val(record).estimated_numbers = <<>>
        /\ IsNone(soup.bid) => Val(record).bid_results = <<>>
        /\ IsNone(soup.award) => Val(record).awards = <<>>

\* A page with bid results but no heading, notice or awards table was extracted.
C4_Witness ==
    /\ ~IsNone(record)
    /\ IsNone(soup.header) /\ IsNone(soup.notice) /\ IsNone(soup.award)
    /\ ~IsNone(soup.bid)
    /\ Val(record).bid_results # <<>>
    /\ Val(record).awards = <<>>

\* The pairs of the record follow the sentences of the notice that mention
\* "estimated", one pair each and in order; the numbers of a pair are the
\* word-bounded runs of its sentence, or else all its maximal runs.
EstimatesFollow(word_bounded) ==
    (~IsNone(record) /\ ~IsNone(soup.notice)) =>
        LET t == Val(soup.notice)
            est == Val(record).estimated_numbers
            M == MentioningSentences(t)
        IN  /\ Len(est) = Cardinality(M)
            /\ \A k \in M :
                 LET pair == est[Rank(M, k)]
                 IN  /\ pair[1] = Trimmed(SentenceAt(t, k))
                     /\ pair[2] = IF word_bounded
                                  THEN WordBoundedRuns(SentenceAt(t, k))
                                  ELSE MaximalRuns(SentenceAt(t, k))

\* C6 as stated: one pair per sentence mentioning "estimated", in order, whose
\* numbers are all the maximal runs of \d[\d,]* of the sentence.
C6_Original == EstimatesFollow(FALSE)

\* C6 as amended: one pair per sentence mentioning "estimated", in order, kept
\* even with no numbers; the numbers are the leftmost-longest runs of digits and
\* commas that begin with a digit and lie between word boundaries.
C6_EstimatesWordBounded == EstimatesFollow(TRUE)

\* Two sentences: the first mentions "estimated" and its number loses the
\* trailing comma, the second does not and is dropped.
C6_Witness ==
    /\ ~IsNone(record) /\ ~IsNone(soup.notice)
    /\ Val(soup.notice) = Estimated \o <<" ", "7", ",", ".">>
    /\ Val(record).estimated_numbers = << <<Estimated \o <<" ", "7", ",">>, <<<<"7">>>> >> >>

\* C7: each table yields one entry per row after the first that has at least
\* three cells, in row order, built from cell[1] and cell[2] of that row.
C7_TableRows ==
    ~IsNone(record) =>
        /\ ~IsNone(soup.bid) =>
             LET t == Val(soup.bid)
                 out == Val(record).bid_results
             IN  /\ Len(out) = Cardinality(DataRows(t))
                 /\ \A i \in DataRows(t) :
                      out[Rank(DataRows(t), i)] =
                          [company |-> Trimmed(t[i][2]), bid_amount |-> Trimmed(t[i][3])]
        /\ ~IsNone(soup.award) =>
             LET t == Val(soup.award)
                 out == Val(record).awards
             IN  /\ Len(out) = Cardinality(DataRows(t))
                 /\ \A i \in DataRows(t) :
                      out[Rank(DataRows(t), i)] =
                          [firm_name |-> Trimmed(t[i][2]), award_amt |-> Trimmed(t[i][3])]

\* A header row and two data rows of three cells gave exactly two bid rows, in
\* source order.
C7_Witness ==
    /\ ~IsNone(record) /\ ~IsNone(soup.bid)
    /\ Val(soup.bid) = <<<<CellA, CellB, CellC>>, <<CellA, CellB, CellC>>, <<CellB, CellC, CellA>>>>
    /\ Val(record).bid_results =
          <<[company |-> <<"B">>, bid_amount |-> CellC],
            [company |-> CellC, bid_amount |-> CellA]>>

----------------------------------------------------------------------------
(* Properties of the runs *)

\* The GET did not succeed: no response, or a client or server error status.
Failed(entry) == entry.kind = "failure" \/ entry.status >= 400
AllFetchesOk == \A i \in DOMAIN netLog : ~Failed(netLog[i])
Ended == pc \in {"done", "raised"}
ConfigReadable == cfgFile.kind = "mapping"
EndsIn(out, ext) == ~IsNone(out) /\ EndsWith(Val(out), ext)
\* The files written by a writer of results (not the temporary pickle).
ResultFiles == SelectSeq(files, LAMBDA f : f.writer # "pickle")

\* C1: an extraction run with a readable configuration and no failing fetch
\* ends having invoked the writer its output path selects: none -> CSV on the
\* derived name, .json -> JSON on the path, .csv -> CSV on the path.
C1_WriterInvoked ==
    (run = "extraction" /\ Ended /\ ConfigReadable /\ AllFetchesOk) =>
        /\ NoOutput(output) =>
             ResultFiles = <<[writer |-> "csv", path |-> CsvDir \o Target \o DotCsv]>>
        /\ EndsIn(output, DotJson) =>
             ResultFiles = <<[writer |-> "json", path |-> Val(output)]>>
        /\ EndsIn(output, DotCsv) =>
             ResultFiles = <<[writer |-> "csv", path |-> Val(output)]>>

Unsupported(out) ==
    ~NoOutput(out) /\ ~EndsWith(Val(out), DotCsv) /\ ~EndsWith(Val(out), DotJson)

\* C2: an extraction run given a path ending in neither .csv nor .json raises
\* the unsupported-format error before any I/O: in such a run no page is ever
\* fetched and no file, output or temporary, is ever written.
C2_UnsupportedBeforeIO ==
    (run = "extraction" /\ Unsupported(output)) =>
        netLog = <<>> /\ files = <<>>

\* C3: a failed fetch is fatal in either run: it is the last fetch of the run,
\* its error leaves main, and the run has written no file.
C3_FetchFatal ==
    \A i \in DOMAIN netLog :
        Failed(netLog[i]) =>
            /\ i = Len(netLog)
            /\ pc = "raised" /\ raised \in {"HTTPError", "ConnectionError"}
            /\ files = <<>>

\* A run in which the second of three fetches failed after the first had gathered
\* a record or links.
C3_Witness ==
    /\ ~IsNone(urls) /\ Len(Val(urls)) = 3 /\ Len(netLog) = 2
    /\ ~Failed(netLog[1]) /\ Failed(netLog[2])
    /\ (run = "extraction" /\ Len(data) = 1) \/ (run = "discovery" /\ url_dict # <<>>)

\* C5: with a missing or malformed configuration file load_yaml_to_dict returns
\* None without raising, and the extraction run checks for it: no unhandled
\* error leaves the run.
C5_SentinelChecked ==
    (run = "extraction" /\ cfgFile.kind \in {"missing", "malformed"}) =>
        /\ pc # "load" => IsNone(urls)
        /\ raised = "none"

\* The title blocks of the listing pages folded in so far, in page then block
\* order, and those that yield a link.
HarvestedBlocks == Concat(listing)
SlugOf(b) == normalize(Trimmed(Val(b.a).text))
Yields(b) ==
    /\ ~IsNone(b.a) /\ SlugOf(b) # <<>>
    /\ ~IsNone(Val(b.a).href) /\ Val(Val(b.a).href) # <<>>
YieldingAt == {i \in DOMAIN HarvestedBlocks : Yields(HarvestedBlocks[i])}

\* C9: after the discovery run has folded in pages 0..n-1, the mapping has one
\* item per normalized title of a block whose first hyperlink has a title and an
\* href, mapped to the href of the last such block in page then block order.
C9_LastWriteWins ==
    run = "discovery" =>
        /\ Len(listing) = Cardinality({i \in DOMAIN netLog : ~Failed(netLog[i])})
        /\ Cardinality(DictKeys(url_dict)) = Len(url_dict)
        /\ DictKeys(url_dict) = {SlugOf(HarvestedBlocks[i]) : i \in YieldingAt}
        /\ \A k \in DictKeys(url_dict) :
             LET last == Max({i \in YieldingAt : SlugOf(HarvestedBlocks[i]) = k})
             IN  DictGet(url_dict, k) = Val(Val(HarvestedBlocks[last].a).href)
        /\ AllFetchesOk => raised = "none"

\* The run ended after three pages: one without blocks, one whose link a later
\* page overwrote, and blocks without hyperlink or href that were skipped.
C9_Witness ==
    /\ run = "discovery" /\ pc = "done" /\ Len(listing) = 3
    /\ listing[1] = <<>>
    /\ \E i \in DOMAIN HarvestedBlocks : IsNone(HarvestedBlocks[i].a)
    /\ \E i \in YieldingAt :
         /\ SlugOf(HarvestedBlocks[i]) \in DictKeys(url_dict)
         /\ DictGet(url_dict, SlugOf(HarvestedBlocks[i]))
              # Val(Val(HarvestedBlocks[i].a).href)

\* C10: the rows handed to the writer are one per extracted record, in the
\* order of the configured URLs; every value is stringified exactly when the
\* CSV writer is the one invoked and kept as it is when the JSON writer is.
C10_RowsForWriter ==
    (run = "extraction" /\ Ended /\ ConfigReadable /\ AllFetchesOk
       /\ ~Unsupported(output)) =>
        /\ Len(data) = Len(Val(urls))
        /\ ~IsNone(df)
        /\ Len(Val(df)) = Len(data)
        /\ \A i \in DOMAIN data :
             \A key \in DOMAIN data[i] :
                 Val(df)[i][key] =
                     IF EndsIn(output, DotJson) THEN data[i][key]
                     ELSE [str_of |-> data[i][key]]

====
